---------------------------- MODULE Spec2Model ----------------------------
(***************************************************************************)
(* Model of the clinic page generator (generate.py) and of the HTML tag    *)
(* balance validator (.pre-commit-hooks/validate-html.py).                 *)
(*                                                                         *)
(* Spec          one run of generate.py main(): load, prepare, render,     *)
(*               write, verify with bounded retries.                       *)
(* FairSpec      Spec with weak fairness of the run's next step.           *)
(* SpecValidator validate_html_file on one input, as the stream of         *)
(*               start-tag and end-tag events HTMLParser.feed dispatches.  *)
(* SpecCli       main() of validate-html.py over its file arguments.       *)
(* SpecTwoRuns   the generator run twice over the same inputs.             *)
(* SpecWriters   two generator processes in write_output at once.          *)
(* SpecRetry     a generator run with any max_attempts for the retry loop. *)
(***************************************************************************)
EXTENDS Integers, Sequences, FiniteSets, TLC

(***************************************************************************)
(* Bounds of the model.                                                    *)
(***************************************************************************)
\* Largest number of required staff files absent from the templates tree.
MaxMissing == 2
\* Longest stream of tag events fed to the validator.
MaxLen == 4
\* Cap of the history of external command runs: above every count the retry
\* loop reaches, it keeps a loop that would not end within finitely many states.
MaxInvocations == 5
\* Most file paths given to the validator's command line.
MaxArgs == 2
\* Longest rendered output, in blocks, of a process writing docs/index.html.
MaxOutLen == 3
\* Largest max_attempts given to run_precommit_with_retries.
MaxAttempts == 4

(***************************************************************************)
(* Program constants of generate.py.                                       *)
(***************************************************************************)
staff_order == <<"orly", "dafi", "nurse", "dietitian", "psychologist">>
StaffFiles == <<"name", "title", "image", "bio">>
DefaultMaxAttempts == 3

StaffIds == {staff_order[i] : i \in 1..Len(staff_order)}
FieldSet == {StaffFiles[i] : i \in 1..Len(StaffFiles)}

(***************************************************************************)
(* Program constants of validate-html.py.                                  *)
(***************************************************************************)
VoidElements ==
    {"img", "br", "hr", "input", "meta", "link", "area", "base", "col",
     "embed", "param", "source", "track", "wbr"}
\* Tag names the modelled inputs are written with: two ordinary, two void.
Tags == {"p", "div", "img", "br"}

VARIABLES
    \* ---- the filesystem and the environment of one generator run
    welcome_exists,   \* templates/welcome.txt exists
    dirs,             \* staff identifiers whose templates/<id> exists
    files,            \* files[id]: the required files present in templates/<id>
    docs_exists,      \* the directory docs/ exists
    out_file,         \* docs/index.html: [exists, data]
    initial_out,      \* docs/index.html as the run found it
    \* ---- main() of generate.py
    pc,               \* the statement main() is at
    welcome_text, staff_members, context, output,
    max_attempts, attempt,
    invocations,      \* calls of run_precommit so far
    outcomes,         \* the results run_precommit returned, in order
    render_ok,        \* what the template engine answered
    write_io,         \* what the operating system answered to open/write
    failed_stage,     \* the stage whose exception ended the run
    exit_code,        \* the process's exit status (-1: still running)
    \* ---- validate_html_file
    content,          \* the tag events of the file, in document order
    pos,              \* the next event feed() dispatches
    stack, errors,    \* HTMLValidator.stack, HTMLValidator.errors
    vpc,              \* "idle", "feed", "done"
    valid,            \* validate_html_file's return value
    \* ---- main() of validate-html.py
    argv,             \* sys.argv[1:]: what each path names
    arg_idx,          \* the argument the for loop is at
    all_valid,
    reports,          \* the per-file lines printed so far
    cpc,              \* "idle", "start", "loop", "validating", "exited"
    cli_exit_code,    \* the status given to sys.exit (-1: still running)
    \* ---- a second run of the generator over the same inputs
    run,              \* 1 for the first run, 2 for the second
    first_out,        \* first run: the file it left and the clock it read
    listing,          \* the order in which the filesystem lists templates/
    \* ---- two generator processes writing docs/index.html
    wpc,              \* wpc[p]: "open", "write", "done"
    wout,             \* wout[p]: the string process p rendered
    last_writer       \* the process whose f.write returned last (0: none)

gen_vars ==
    <<welcome_exists, dirs, files, docs_exists, out_file, initial_out, pc,
      welcome_text, staff_members, context, output, max_attempts, attempt,
      invocations, outcomes, render_ok, write_io, failed_stage, exit_code>>
val_vars == <<content, pos, stack, errors, vpc, valid>>
cli_vars == <<argv, arg_idx, all_valid, reports, cpc, cli_exit_code>>
rerun_vars == <<run, first_out, listing>>
conc_vars == <<wpc, wout, last_writer>>
ext_vars == <<cli_vars, rerun_vars, conc_vars>>
vars == <<gen_vars, val_vars, ext_vars>>

(***************************************************************************)
(* File contents.  A text is a sequence of tokens <<kind, owner, field>>;  *)
(* kind "ws" is a whitespace character, kind "txt" a piece of text.        *)
(***************************************************************************)
Ws == <<"ws", "", "">>
Txt(owner, field) == <<"txt", owner, field>>
\* What a populated file holds: its text between leading and trailing blanks.
RawFile(owner, field) == <<Ws, Txt(owner, field), Ws>>

RECURSIVE LStrip(_)
LStrip(s) == IF s # <<>> /\ Head(s)[1] = "ws" THEN LStrip(Tail(s)) ELSE s

RECURSIVE RStrip(_)
RStrip(s) ==
    IF s # <<>> /\ s[Len(s)][1] = "ws"
    THEN RStrip(SubSeq(s, 1, Len(s) - 1))
    ELSE s

\* str.strip()
Strip(s) == RStrip(LStrip(s))

\* read_text_file on a file that exists
read_text_file(owner, field) == Strip(RawFile(owner, field))


(***************************************************************************)
(* The Content Loader.                                                     *)
(***************************************************************************)
\* The dict literal of load_staff_member reads name, title, image and bio in
\* turn; open() raises FileNotFoundError at the first one that is absent, so
\* the dict is built only when all four are present.
load_staff_member_partial(member_id) ==
    [ok |-> TRUE,
     value |-> [f \in files[member_id] |-> read_text_file(member_id, f)]]

load_staff_member(member_id) ==
    IF \A i \in 1..Len(StaffFiles) : StaffFiles[i] \in files[member_id]
    THEN [ok |-> TRUE,
          value |-> [f \in FieldSet |-> read_text_file(member_id, f)]]
    ELSE [ok |-> FALSE, value |-> <<>>]

\* The identifier the i-th iteration of "for member_id in staff_order" visits.
member_id_at_reversed(i) == staff_order[Len(staff_order) + 1 - i]

member_id_at(i) == staff_order[i]

\* The loop of load_staff_members from its i-th iteration on, with the list
\* built so far: an absent directory is skipped, an exception leaves the loop.
RECURSIVE load_loop(_, _)
load_loop(i, acc) ==
    IF i > Len(staff_order)
    THEN [ok |-> TRUE, value |-> acc]
    ELSE LET member_id == member_id_at(i)
         IN  IF member_id \in dirs
             THEN LET m == load_staff_member(member_id)
                  IN  IF m.ok
                      THEN load_loop(i + 1, Append(acc, m.value))
                      ELSE [ok |-> FALSE, value |-> <<>>]
             ELSE load_loop(i + 1, acc)

load_staff_members == load_loop(1, <<>>)

(***************************************************************************)
(* The Roster Assembler, the Renderer and the output file.                 *)
(***************************************************************************)
\* The wall-clock values a run may read, already formatted.
Clocks == {"2024-01-01 00:00:00", "2024-01-01 00:00:01"}

NoContext ==
    [welcome_text |-> <<>>, staff_members |-> <<>>,
     generation_timestamp |-> ""]

prepare_template_context(wt, sm, now) ==
    [welcome_text |-> wt, staff_members |-> sm, generation_timestamp |-> now]

\* The template engine is a deterministic function of the context.
render_template(ctx) == <<"index.html.mako", ctx>>

NoFile == [exists |-> FALSE, data |-> <<>>]
OldFile == [exists |-> TRUE, data |-> <<"previous index.html">>]
Truncated == [exists |-> TRUE, data |-> <<>>]
FileWith(data) == [exists |-> TRUE, data |-> data]

\* What the operating system may answer to open(path, "w") and f.write().
IoOutcomes == {"ok", "open_fails", "write_fails"}

(***************************************************************************)
(* Initial states of one generator run.                                    *)
(***************************************************************************)
RECURSIVE SubsetsUpTo(_, _)
SubsetsUpTo(S, k) ==
    IF k = 0
    THEN {{}}
    ELSE LET P == SubsetsUpTo(S, k - 1)
         IN  P \cup {p \cup {x} : p \in P, x \in S}

CliIdle ==
    /\ argv = <<>>
    /\ arg_idx = 1
    /\ all_valid = TRUE
    /\ reports = <<>>
    /\ cpc = "idle"
    /\ cli_exit_code = -1

RerunIdle ==
    /\ run = 1
    /\ first_out = [file |-> [exists |-> FALSE, data |-> <<>>], clock |-> ""]
    /\ listing = <<>>

WritersIdle ==
    /\ wpc = <<>>
    /\ wout = <<>>
    /\ last_writer = 0

ValidatorIdle ==
    /\ content = <<>>
    /\ pos = 1
    /\ stack = <<>>
    /\ errors = <<>>
    /\ vpc = "idle"
    /\ valid = FALSE

\* main() is entered: the filesystem as the run finds it, nothing loaded yet.
GeneratorStart ==
    /\ welcome_exists \in BOOLEAN
    /\ dirs \in SUBSET StaffIds
    /\ \E missing \in SubsetsUpTo(dirs \X FieldSet, MaxMissing) :
          files = [id \in StaffIds |->
                      IF id \in dirs
                      THEN {f \in FieldSet : <<id, f>> \notin missing}
                      ELSE {}]
    /\ docs_exists \in BOOLEAN
    /\ out_file \in (IF docs_exists THEN {NoFile, OldFile} ELSE {NoFile})
    /\ initial_out = out_file
    /\ pc = "load_welcome"
    /\ welcome_text = <<>>
    /\ staff_members = <<>>
    /\ context = NoContext
    /\ output = <<>>
    /\ max_attempts = DefaultMaxAttempts
    /\ attempt = 1
    /\ invocations = 0
    /\ outcomes = <<>>
    /\ render_ok = FALSE
    /\ write_io = "none"
    /\ failed_stage = "none"
    /\ exit_code = -1

Init ==
    /\ GeneratorStart
    /\ ValidatorIdle
    /\ CliIdle
    /\ RerunIdle
    /\ WritersIdle

(***************************************************************************)
(* main() of generate.py, one action per statement.  An exception that     *)
(* leaves main() ends the process with status 1; a normal return with 0.   *)
(***************************************************************************)
Raise(stage) ==
    /\ pc' = "exited"
    /\ failed_stage' = stage
    /\ exit_code' = 1

LoadWelcome_default_text ==
    /\ pc = "load_welcome"
    /\ welcome_text' =
          IF welcome_exists THEN read_text_file("welcome", "welcome") ELSE <<>>
    /\ pc' = "load_staff"
    /\ UNCHANGED <<failed_stage, exit_code>>
    /\ UNCHANGED <<welcome_exists, dirs, files, docs_exists, out_file,
                   initial_out, staff_members, context, output, max_attempts,
                   attempt, invocations, outcomes, render_ok, write_io>>
    /\ UNCHANGED val_vars
    /\ UNCHANGED ext_vars

\* welcome_text = read_text_file(templates_dir / "welcome.txt")
LoadWelcome ==
    /\ pc = "load_welcome"
    /\ IF welcome_exists
       THEN /\ welcome_text' = read_text_file("welcome", "welcome")
            /\ pc' = "load_staff"
            /\ UNCHANGED <<failed_stage, exit_code>>
       ELSE /\ Raise("load_welcome")
            /\ UNCHANGED welcome_text
    /\ UNCHANGED <<welcome_exists, dirs, files, docs_exists, out_file,
                   initial_out, staff_members, context, output, max_attempts,
                   attempt, invocations, outcomes, render_ok, write_io>>
    /\ UNCHANGED val_vars
    /\ UNCHANGED ext_vars

\* staff_members = load_staff_members(templates_dir)
LoadStaff ==
    /\ pc = "load_staff"
    /\ LET r == load_staff_members
       IN  IF r.ok
           THEN /\ staff_members' = r.value
                /\ pc' = "prepare"
                /\ UNCHANGED <<failed_stage, exit_code>>
           ELSE /\ Raise("load_staff")
                /\ UNCHANGED staff_members
    /\ UNCHANGED <<welcome_exists, dirs, files, docs_exists, out_file,
                   initial_out, welcome_text, context, output, max_attempts,
                   attempt, invocations, outcomes, render_ok, write_io>>
    /\ UNCHANGED val_vars
    /\ UNCHANGED ext_vars

\* context = prepare_template_context(welcome_text, staff_members)
Prepare ==
    /\ pc = "prepare"
    /\ \E now \in Clocks :
          context' = prepare_template_context(welcome_text, staff_members, now)
    /\ pc' = "render"
    /\ UNCHANGED <<welcome_exists, dirs, files, docs_exists, out_file,
                   initial_out, welcome_text, staff_members, output,
                   max_attempts, attempt, invocations, outcomes, render_ok,
                   write_io, failed_stage, exit_code>>
    /\ UNCHANGED val_vars
    /\ UNCHANGED ext_vars

Render_failure_ignored ==
    /\ pc = "render"
    /\ \E ok \in BOOLEAN :
          /\ render_ok' = ok
          /\ output' = IF ok THEN render_template(context) ELSE <<>>
          /\ pc' = "write"
          /\ UNCHANGED <<failed_stage, exit_code>>
    /\ UNCHANGED <<welcome_exists, dirs, files, docs_exists, out_file,
                   initial_out, welcome_text, staff_members, context,
                   max_attempts, attempt, invocations, outcomes, write_io>>
    /\ UNCHANGED val_vars
    /\ UNCHANGED ext_vars

\* output = render_template(templates_dir, context): the engine raises when the
\* template is absent or cannot be resolved.
Render ==
    /\ pc = "render"
    /\ \E ok \in BOOLEAN :
          /\ render_ok' = ok
          /\ IF ok
             THEN /\ output' = render_template(context)
                  /\ pc' = "write"
                  /\ UNCHANGED <<failed_stage, exit_code>>
             ELSE /\ Raise("render")
                  /\ UNCHANGED output
    /\ UNCHANGED <<welcome_exists, dirs, files, docs_exists, out_file,
                   initial_out, welcome_text, staff_members, context,
                   max_attempts, attempt, invocations, outcomes, write_io>>
    /\ UNCHANGED val_vars
    /\ UNCHANGED ext_vars

\* output_path = write_output(output): open(docs/index.html, "w") raises
\* FileNotFoundError when docs/ is absent (nothing creates it) and may raise on
\* a permission failure; it truncates the file; f.write may fail on a full disk.
write_output_append(io) ==
    /\ UNCHANGED docs_exists
    /\ CASE ~docs_exists ->
              /\ Raise("write")
              /\ UNCHANGED out_file
         [] docs_exists /\ io = "ok" ->
              /\ out_file' = FileWith(out_file.data \o output)
              /\ pc' = "verify"
              /\ UNCHANGED <<failed_stage, exit_code>>
         [] docs_exists /\ io # "ok" ->
              /\ Raise("write")
              /\ UNCHANGED out_file

write_output(io) ==
    /\ UNCHANGED docs_exists
    /\ CASE ~docs_exists ->
              /\ Raise("write")
              /\ UNCHANGED out_file
         [] docs_exists /\ io = "ok" ->
              /\ out_file' = FileWith(output)
              /\ pc' = "verify"
              /\ UNCHANGED <<failed_stage, exit_code>>
         [] docs_exists /\ io = "open_fails" ->
              /\ Raise("write")
              /\ UNCHANGED out_file
         [] docs_exists /\ io = "write_fails" ->
              /\ Raise("write")
              /\ out_file' = Truncated

Write ==
    /\ pc = "write"
    /\ \E io \in IoOutcomes :
          /\ write_io' = io
          /\ write_output(io)
    /\ UNCHANGED <<welcome_exists, dirs, files, initial_out, welcome_text,
                   staff_members, context, output, max_attempts, attempt,
                   invocations, outcomes, render_ok>>
    /\ UNCHANGED val_vars
    /\ UNCHANGED ext_vars

(***************************************************************************)
(* run_precommit_with_retries: one action per iteration of                 *)
(* "for attempt in range(1, max_attempts + 1)".  run_precommit runs the    *)
(* external command once and answers whether its exit code was 0.          *)
(***************************************************************************)
\* The iteration's three branches, given run_precommit's answer.
retry_branch_no_abort(passed) ==
    IF passed \/ attempt >= max_attempts
    THEN /\ pc' = "exited"
         /\ exit_code' = 0
         /\ UNCHANGED <<attempt, failed_stage>>
    ELSE /\ attempt' = attempt + 1
         /\ UNCHANGED <<pc, failed_stage, exit_code>>

retry_branch_no_break(passed) ==
    IF attempt < max_attempts
    THEN /\ attempt' = attempt + 1
         /\ UNCHANGED <<pc, failed_stage, exit_code>>
    ELSE IF passed
         THEN /\ pc' = "exited"
              /\ exit_code' = 0
              /\ UNCHANGED <<attempt, failed_stage>>
         ELSE /\ Raise("verify")
              /\ UNCHANGED attempt

retry_branch_no_advance(passed) ==
    IF passed
    THEN /\ pc' = "exited"
         /\ exit_code' = 0
         /\ UNCHANGED <<attempt, failed_stage>>
    ELSE /\ UNCHANGED <<attempt, pc, failed_stage, exit_code>>

retry_branch_three_hardcoded(passed) ==
    IF passed
    THEN /\ pc' = "exited"
         /\ exit_code' = 0
         /\ UNCHANGED <<attempt, failed_stage>>
    ELSE IF attempt < 3
         THEN /\ attempt' = attempt + 1
              /\ UNCHANGED <<pc, failed_stage, exit_code>>
         ELSE /\ Raise("verify")
              /\ UNCHANGED attempt

retry_branch(passed) ==
    IF passed
    THEN \* break: the loop ends, main() returns
         /\ pc' = "exited"
         /\ exit_code' = 0
         /\ UNCHANGED <<attempt, failed_stage>>
    ELSE IF attempt < max_attempts
         THEN \* the for loop takes the next value of range()
              /\ attempt' = attempt + 1
              /\ UNCHANGED <<pc, failed_stage, exit_code>>
         ELSE \* raise click.Abort()
              /\ Raise("verify")
              /\ UNCHANGED attempt

RunAttempt ==
    /\ pc = "verify"
    /\ attempt <= max_attempts
    /\ invocations < MaxInvocations
    /\ \E passed \in BOOLEAN :
          /\ invocations' = invocations + 1
          /\ outcomes' = Append(outcomes, passed)
          /\ retry_branch(passed)
    /\ UNCHANGED <<welcome_exists, dirs, files, docs_exists, out_file,
                   initial_out, welcome_text, staff_members, context, output,
                   max_attempts, render_ok, write_io>>
    /\ UNCHANGED val_vars
    /\ UNCHANGED ext_vars

Next ==
    \/ LoadWelcome
    \/ LoadStaff
    \/ Prepare
    \/ Render
    \/ Write
    \/ RunAttempt

Spec == Init /\ [][Next]_vars

\* The run is one sequential process: while a statement remains it is executed,
\* and every call of the external command returns.
FairSpec == Spec /\ WF_vars(Next)

(***************************************************************************)
(* Properties of the generator.                                            *)
(***************************************************************************)
AllFailed(seq) == \A i \in 1..Len(seq) : ~seq[i]
\* The staff identifier a loaded record was read from.
IdOf(member) == member["name"][1][2]
RosterIds == [i \in 1..Len(staff_members) |-> IdOf(staff_members[i])]
InDirs(id) == id \in dirs
AllPopulated == \A id \in dirs : files[id] = FieldSet
\* load_staff_members has returned.
StaffLoaded ==
    \/ pc \in {"prepare", "render", "write", "verify"}
    \/ pc = "exited" /\ failed_stage \notin {"load_welcome", "load_staff"}
\* The retry loop was entered and the run is over.
VerifyOver == pc = "exited" /\ failed_stage \in {"none", "verify"}

\* C1: with max_attempts = 3 the external command runs exactly k times when
\* its k-th run is the first that passes (k <= 3), the loop ending at once
\* with success, and exactly 3 times with a failure when all three runs fail;
\* never a 4th time.  fail, fail, pass is a success after 3 runs.
C1_RetryCount ==
    /\ invocations = Len(outcomes)
    /\ invocations <= 3
    /\ pc = "verify" => AllFailed(outcomes) /\ invocations < 3
    /\ VerifyOver =>
          /\ invocations >= 1
          /\ AllFailed(SubSeq(outcomes, 1, invocations - 1))
          /\ IF outcomes[invocations]
             THEN exit_code = 0 /\ failed_stage = "none"
             ELSE invocations = 3 /\ exit_code = 1 /\ failed_stage = "verify"
    /\ outcomes = <<FALSE, FALSE, TRUE>> => pc = "exited" /\ exit_code = 0

C1_Witness ==
    pc = "exited" /\ outcomes = <<FALSE, FALSE, TRUE>> /\ exit_code = 0

\* C2: every run of the external command returning, the retry loop always
\* ends, whatever the command answers: a command that never passes exhausts
\* the attempts and the run ends in failure.
C2_RetryTerminates == (pc = "verify") ~> (pc = "exited")

C2_Witness ==
    /\ pc = "exited"
    /\ failed_stage = "verify"
    /\ outcomes = <<FALSE, FALSE, FALSE>>

\* C3: whatever fully populated staff directories exist, loading succeeds and
\* the roster is the priority list restricted to them, in priority order,
\* without duplicates: five entries with all present, four with one absent.
C3_RosterOrder ==
    /\ pc = "exited" /\ failed_stage = "load_staff" => ~AllPopulated
    /\ StaffLoaded =>
          /\ RosterIds = SelectSeq(staff_order, InDirs)
          /\ Len(staff_members) = Cardinality(dirs)
          /\ \A i, j \in 1..Len(staff_members) :
                i # j => RosterIds[i] # RosterIds[j]

C3_Witness ==
    /\ StaffLoaded
    /\ dirs = StaffIds \ {"nurse"}
    /\ RosterIds = <<"orly", "dafi", "dietitian", "psychologist">>

\* C4: a staff directory that exists without one of its four files makes
\* loading fail and the run abort: no record with fewer than four fields is
\* ever in the roster or in the render context, nothing is rendered or written.
C4_NoPartialRecord ==
    /\ \A i \in 1..Len(staff_members) : DOMAIN staff_members[i] = FieldSet
    /\ \A i \in 1..Len(context.staff_members) :
          DOMAIN context.staff_members[i] = FieldSet
    /\ ~AllPopulated /\ pc \notin {"load_welcome", "load_staff"} =>
          /\ pc = "exited"
          /\ failed_stage \in {"load_welcome", "load_staff"}
          /\ welcome_exists => failed_stage = "load_staff"
          /\ exit_code = 1
          /\ staff_members = <<>>
          /\ context = NoContext
          /\ output = <<>>
          /\ out_file = initial_out

C4_Witness ==
    /\ pc = "exited"
    /\ failed_stage = "load_staff"
    /\ dirs = StaffIds
    /\ files["dafi"] = FieldSet \ {"bio"}

\* C5: write_output creates docs/ when it is absent, so that, the operating
\* system reporting no failure, the write succeeds and docs/index.html holds
\* exactly the rendered string.
C5_WriteCreatesParent ==
    write_io = "ok" =>
        /\ docs_exists
        /\ failed_stage # "write"
        /\ out_file = FileWith(output)

AllStagesOk ==
    /\ welcome_exists
    /\ AllPopulated
    /\ render_ok
    /\ docs_exists /\ write_io = "ok"
    /\ ~AllFailed(outcomes)

\* C6: the run exits with 0 exactly when every stage succeeded, and with a
\* non-zero status otherwise; success is never reported unless the output was
\* regenerated and the verifier passed.
C6_ExitCode ==
    /\ pc = "exited" <=> exit_code # -1
    /\ pc = "exited" =>
          /\ exit_code \in {0, 1}
          /\ exit_code = 0 <=> AllStagesOk
          /\ exit_code = 0 <=> failed_stage = "none"
          /\ exit_code = 0 =>
                /\ out_file = FileWith(render_template(context))
                /\ context.staff_members = staff_members
                /\ outcomes[Len(outcomes)]

C6_Witness ==
    /\ pc = "exited"
    /\ exit_code = 0
    /\ outcomes = <<FALSE, TRUE>>
    /\ out_file # initial_out

(***************************************************************************)
(* The HTML structural validator.  HTMLParser.feed walks the text and      *)
(* calls handle_starttag for each opening tag and handle_endtag for each   *)
(* closing tag, in document order; text and attributes reach no handler    *)
(* that HTMLValidator overrides.                                           *)
(***************************************************************************)
Events == [kind : {"start", "end"}, tag : Tags]
StartEv(t) == [kind |-> "start", tag |-> t]
EndEv(t) == [kind |-> "end", tag |-> t]

\* The diagnostics, by the message each is formatted into.
Unexpected(tag) ==
    [kind |-> "Unexpected closing tag", expected |-> "", got |-> tag,
     unclosed |-> <<>>]
Mismatched(top, tag) ==
    [kind |-> "Mismatched tags", expected |-> top, got |-> tag,
     unclosed |-> <<>>]
Unclosed(open) ==
    [kind |-> "Unclosed tags", expected |-> "", got |-> "", unclosed |-> open]

GeneratorIdle ==
    /\ welcome_exists = FALSE
    /\ dirs = {}
    /\ files = [id \in StaffIds |-> {}]
    /\ docs_exists = FALSE
    /\ out_file = NoFile
    /\ initial_out = NoFile
    /\ pc = "idle"
    /\ welcome_text = <<>>
    /\ staff_members = <<>>
    /\ context = NoContext
    /\ output = <<>>
    /\ max_attempts = DefaultMaxAttempts
    /\ attempt = 1
    /\ invocations = 0
    /\ outcomes = <<>>
    /\ render_ok = FALSE
    /\ write_io = "none"
    /\ failed_stage = "none"
    /\ exit_code = -1

\* validator = HTMLValidator(), about to be fed the file's content.
InitValidator ==
    /\ content \in UNION {[1..n -> Events] : n \in 0..MaxLen}
    /\ pos = 1
    /\ stack = <<>>
    /\ errors = <<>>
    /\ vpc = "feed"
    /\ valid = FALSE
    /\ GeneratorIdle
    /\ CliIdle
    /\ RerunIdle
    /\ WritersIdle

handle_starttag_push_all(tag) ==
    /\ stack' = Append(stack, tag)
    /\ UNCHANGED errors

handle_starttag(tag) ==
    /\ IF tag \notin VoidElements
       THEN stack' = Append(stack, tag)
       ELSE UNCHANGED stack
    /\ UNCHANGED errors

handle_endtag_ignore_unexpected(tag) ==
    IF stack = <<>>
    THEN UNCHANGED <<stack, errors>>
    ELSE IF stack[Len(stack)] # tag
         THEN /\ errors' = Append(errors, Mismatched(stack[Len(stack)], tag))
              /\ UNCHANGED stack
         ELSE /\ stack' = SubSeq(stack, 1, Len(stack) - 1)
              /\ UNCHANGED errors

handle_endtag_pop_on_mismatch(tag) ==
    IF stack = <<>>
    THEN /\ errors' = Append(errors, Unexpected(tag))
         /\ UNCHANGED stack
    ELSE /\ stack' = SubSeq(stack, 1, Len(stack) - 1)
         /\ IF stack[Len(stack)] # tag
            THEN errors' = Append(errors, Mismatched(stack[Len(stack)], tag))
            ELSE UNCHANGED errors

handle_endtag(tag) ==
    IF stack = <<>>
    THEN /\ errors' = Append(errors, Unexpected(tag))
         /\ UNCHANGED stack
    ELSE IF stack[Len(stack)] # tag
         THEN /\ errors' = Append(errors, Mismatched(stack[Len(stack)], tag))
              /\ UNCHANGED stack
         ELSE /\ stack' = SubSeq(stack, 1, Len(stack) - 1)
              /\ UNCHANGED errors

\* feed() reaches an opening tag.
FeedStart ==
    /\ vpc = "feed"
    /\ pos <= Len(content)
    /\ content[pos].kind = "start"
    /\ handle_starttag(content[pos].tag)
    /\ pos' = pos + 1
    /\ UNCHANGED <<content, vpc, valid>>
    /\ UNCHANGED gen_vars
    /\ UNCHANGED ext_vars

\* feed() reaches a closing tag.
FeedEnd ==
    /\ vpc = "feed"
    /\ pos <= Len(content)
    /\ content[pos].kind = "end"
    /\ handle_endtag(content[pos].tag)
    /\ pos' = pos + 1
    /\ UNCHANGED <<content, vpc, valid>>
    /\ UNCHANGED gen_vars
    /\ UNCHANGED ext_vars

\* The list of diagnostics after validate_html_file's check for unclosed tags.
check_unclosed_top_only ==
    IF stack # <<>>
    THEN Append(errors, Unclosed(<<stack[Len(stack)]>>))
    ELSE errors

check_unclosed ==
    IF stack # <<>> THEN Append(errors, Unclosed(stack)) ELSE errors

\* feed() has returned: the rest of validate_html_file.
EndOfInput ==
    /\ vpc = "feed"
    /\ pos > Len(content)
    /\ errors' = check_unclosed
    /\ valid' = (errors' = <<>>)
    /\ vpc' = "done"
    /\ UNCHANGED <<content, pos, stack>>
    /\ UNCHANGED gen_vars
    /\ UNCHANGED ext_vars

NextValidator ==
    \/ FeedStart
    \/ FeedEnd
    \/ EndOfInput

SpecValidator == InitValidator /\ [][NextValidator]_vars

(***************************************************************************)
(* Properties of the validator.                                            *)
(***************************************************************************)
\* The reference checker: a stream of tag events is balanced and correctly
\* nested when deleting an opening tag immediately followed by its closing
\* tag, again and again, leaves nothing.
IgnoredStart(e) == e.kind = "start" /\ e.tag \in VoidElements
Tracked(e) == ~IgnoredStart(e)
IsPair(s, i) ==
    /\ s[i].kind = "start"
    /\ s[i + 1].kind = "end"
    /\ s[i].tag = s[i + 1].tag

RECURSIVE Reduce(_)
Reduce(s) ==
    LET pairs == {i \in 1..(Len(s) - 1) : IsPair(s, i)}
    IN  IF pairs = {}
        THEN s
        ELSE LET i == CHOOSE k \in pairs : \A m \in pairs : k <= m
             IN  Reduce(SubSeq(s, 1, i - 1) \o SubSeq(s, i + 2, Len(s)))

Balanced(s) == Reduce(SelectSeq(s, Tracked)) = <<>>

IsPrefix(s, t) == Len(s) <= Len(t) /\ SubSeq(t, 1, Len(s)) = s

RECURSIVE IsSubseq(_, _)
IsSubseq(s, t) ==
    IF s = <<>> THEN TRUE
    ELSE IF t = <<>> THEN FALSE
    ELSE IF Head(s) = Head(t) THEN IsSubseq(Tail(s), Tail(t))
    ELSE IsSubseq(s, Tail(t))

IsPushedStart(e) == e.kind = "start" /\ e.tag \notin VoidElements
\* The names of the tags the input opens, void elements apart, in order.
OpenedTags ==
    LET opens == SelectSeq(content, IsPushedStart)
    IN  [i \in 1..Len(opens) |-> opens[i].tag]

AtStart == vpc = "feed" /\ pos <= Len(content) /\ content[pos].kind = "start"
AtEnd == vpc = "feed" /\ pos <= Len(content) /\ content[pos].kind = "end"

\* C7: the validator reports an input valid (no diagnostic after the check at
\* the end of input) exactly when its tag events, opening tags of void
\* elements apart, are balanced and correctly nested by the reference checker.
C7_ValidIffBalanced ==
    vpc = "done" =>
        /\ valid <=> errors = <<>>
        /\ valid <=> Balanced(content)

C7_Witness ==
    /\ vpc = "done"
    /\ valid
    /\ content = <<StartEv("p"), StartEv("div"), EndEv("div"), EndEv("p")>>

\* C8: a closing tag does exactly one of three things: with an empty stack it
\* records "unexpected closing tag" and the stack stays empty; with a top that
\* differs it records "mismatched tags" naming the top and the tag received
\* and does not pop; with a top that matches it pops one entry and records
\* nothing.
C8_EndTagCases ==
    [][AtEnd /\ pos' = pos + 1 =>
          LET tag == content[pos].tag
              n == Len(stack)
          IN  CASE n = 0 ->
                     /\ errors' = Append(errors, Unexpected(tag))
                     /\ stack' = <<>>
                [] n > 0 /\ stack[n] # tag ->
                     /\ errors' = Append(errors, Mismatched(stack[n], tag))
                     /\ errors'[Len(errors')].expected = stack[n]
                     /\ errors'[Len(errors')].got = tag
                     /\ stack' = stack
                [] n > 0 /\ stack[n] = tag ->
                     /\ errors' = errors
                     /\ stack' = SubSeq(stack, 1, n - 1)]_vars

C8_Witness ==
    /\ vpc = "done"
    /\ content = <<EndEv("p"), StartEv("p"), EndEv("div"), EndEv("p")>>
    /\ errors = <<Unexpected("p"), Mismatched("p", "div")>>
    /\ stack = <<>>

\* C9: the stack never holds a void element name: an opening tag of a void
\* element changes neither the stack nor the diagnostics, any other opening
\* tag pushes exactly its name, and an input that is one void opening tag is
\* valid.
C9_VoidNeverPushed ==
    /\ [](\A i \in 1..Len(stack) : stack[i] \notin VoidElements)
    /\ [][AtStart /\ pos' = pos + 1 =>
             /\ errors' = errors
             /\ stack' = IF content[pos].tag \in VoidElements
                         THEN stack
                         ELSE Append(stack, content[pos].tag)]_vars
    /\ [](vpc = "done" /\ content = <<StartEv("img")>> =>
             valid /\ errors = <<>>)

C9_Witness ==
    /\ vpc = "done"
    /\ content = <<StartEv("img")>>
    /\ stack = <<>>
    /\ valid

UnclosedAt == {i \in 1..Len(errors) : errors[i].kind = "Unclosed tags"}

\* C10: the validator does not stop at the first error: every event of the
\* input is processed and the list of diagnostics only grows.  At the end of
\* input a non-empty stack adds one "unclosed tags" diagnostic naming every
\* remaining entry in the order they were opened ("<p>Hello" is invalid with
\* a diagnostic naming p); an empty stack adds none.
C10_Accumulates ==
    /\ [][IsPrefix(errors, errors')]_vars
    /\ [][errors # <<>> /\ vpc = "feed" /\ pos <= Len(content) =>
             vpc' = "feed" /\ pos' = pos + 1]_vars
    /\ [](vpc = "feed" => UnclosedAt = {})
    /\ [](vpc = "done" =>
             /\ pos = Len(content) + 1
             /\ IF stack # <<>>
                THEN /\ UnclosedAt = {Len(errors)}
                     /\ errors[Len(errors)].unclosed = stack
                     /\ IsSubseq(stack, OpenedTags)
                     /\ ~valid
                ELSE UnclosedAt = {}
             /\ content = <<StartEv("p")>> =>
                   errors = <<Unclosed(<<"p">>)>> /\ ~valid)

C10_Witness ==
    /\ vpc = "done"
    /\ content = <<EndEv("p"), StartEv("p"), StartEv("div"), EndEv("p")>>
    /\ errors = <<Unexpected("p"), Mismatched("div", "p"),
                  Unclosed(<<"p", "div">>)>>

(***************************************************************************)
(* main() of validate-html.py: the command line over sys.argv[1:].  Each   *)
(* path names no file ("missing"), a file whose read_text raises           *)
(* ("unreadable": not UTF-8, a directory, no permission) or an HTML file.  *)
(* validate_html_file runs as the actions FeedStart, FeedEnd, EndOfInput.  *)
(***************************************************************************)
SampleDocs ==
    { <<>>,
      <<StartEv("p"), EndEv("p")>>,
      <<StartEv("p")>>,
      <<StartEv("p"), EndEv("div")>>,
      <<EndEv("p")>> }

PathKinds ==
    {[kind |-> "missing", doc |-> <<>>], [kind |-> "unreadable", doc |-> <<>>]}
        \cup {[kind |-> "html", doc |-> d] : d \in SampleDocs}

Report(i, line, diagnostics) ==
    [file |-> i, line |-> line, diagnostics |-> diagnostics]

InitCli ==
    /\ argv \in UNION {[1..n -> PathKinds] : n \in 0..MaxArgs}
    /\ arg_idx = 1
    /\ all_valid = TRUE
    /\ reports = <<>>
    /\ cpc = "start"
    /\ cli_exit_code = -1
    /\ ValidatorIdle
    /\ GeneratorIdle
    /\ RerunIdle
    /\ WritersIdle

\* if len(sys.argv) < 2: usage, sys.exit(1); else all_valid = True
CliStart ==
    /\ cpc = "start"
    /\ IF Len(argv) < 1
       THEN /\ cpc' = "exited"
            /\ cli_exit_code' = 1
            /\ UNCHANGED all_valid
       ELSE /\ cpc' = "loop"
            /\ all_valid' = TRUE
            /\ UNCHANGED cli_exit_code
    /\ UNCHANGED <<argv, arg_idx, reports>>
    /\ UNCHANGED <<gen_vars, val_vars, rerun_vars, conc_vars>>

\* if not filepath.exists(): print, all_valid = False, continue
CliMissing ==
    /\ cpc = "loop"
    /\ arg_idx <= Len(argv)
    /\ argv[arg_idx].kind = "missing"
    /\ reports' = Append(reports, Report(arg_idx, "File not found", <<>>))
    /\ all_valid' = FALSE
    /\ arg_idx' = arg_idx + 1
    /\ UNCHANGED <<argv, cpc, cli_exit_code>>
    /\ UNCHANGED <<gen_vars, val_vars, rerun_vars, conc_vars>>

\* validate_html_file(filepath) is entered: read_text raises, which the except
\* clause answers with False, or a new HTMLValidator is fed the content.
CliValidate ==
    /\ cpc = "loop"
    /\ arg_idx <= Len(argv)
    /\ argv[arg_idx].kind # "missing"
    /\ IF argv[arg_idx].kind = "unreadable"
       THEN /\ content' = <<>>
            /\ vpc' = "done"
            /\ valid' = FALSE
       ELSE /\ content' = argv[arg_idx].doc
            /\ vpc' = "feed"
            /\ valid' = FALSE
    /\ pos' = 1
    /\ stack' = <<>>
    /\ errors' = <<>>
    /\ cpc' = "validating"
    /\ UNCHANGED <<argv, arg_idx, all_valid, reports, cli_exit_code>>
    /\ UNCHANGED <<gen_vars, rerun_vars, conc_vars>>

\* all_valid after "if not validate_html_file(filepath): all_valid = False"
next_all_valid_overwritten(ok) == ok

next_all_valid(ok) == IF ~ok THEN FALSE ELSE all_valid

\* validate_html_file has printed its verdict and returned.
CliReturn ==
    /\ cpc = "validating"
    /\ vpc = "done"
    /\ reports' =
          Append(reports,
                 IF argv[arg_idx].kind = "unreadable"
                 THEN Report(arg_idx, "Failed to parse", <<>>)
                 ELSE IF valid
                      THEN Report(arg_idx, "HTML is well-formed", <<>>)
                      ELSE Report(arg_idx, "HTML validation failed", errors))
    /\ all_valid' = next_all_valid(valid)
    /\ arg_idx' = arg_idx + 1
    /\ cpc' = "loop"
    /\ UNCHANGED <<argv, cli_exit_code>>
    /\ UNCHANGED <<gen_vars, val_vars, rerun_vars, conc_vars>>

\* sys.exit(0 if all_valid else 1)
CliExit ==
    /\ cpc = "loop"
    /\ arg_idx > Len(argv)
    /\ cli_exit_code' = IF all_valid THEN 0 ELSE 1
    /\ cpc' = "exited"
    /\ UNCHANGED <<argv, arg_idx, all_valid, reports>>
    /\ UNCHANGED <<gen_vars, val_vars, rerun_vars, conc_vars>>

NextCli ==
    \/ CliStart
    \/ CliMissing
    \/ CliValidate
    \/ FeedStart
    \/ FeedEnd
    \/ EndOfInput
    \/ CliReturn
    \/ CliExit

SpecCli == InitCli /\ [][NextCli]_vars

\* What the command line must print for a path.
ExpectedLine(path) ==
    CASE path.kind = "missing" -> "File not found"
      [] path.kind = "unreadable" -> "Failed to parse"
      [] path.kind = "html" /\ Balanced(path.doc) -> "HTML is well-formed"
      [] OTHER -> "HTML validation failed"

WellFormedFile(path) == path.kind = "html" /\ Balanced(path.doc)

\* C11: given one or more paths the command line examines every path in
\* argument order, a missing or invalid file never keeping a later one from
\* being checked and reported, and exits with 0 exactly when every file
\* exists, parses and is well-formed, with 1 otherwise.
C11_CliExitCode ==
    /\ cpc = "loop" => Len(reports) = arg_idx - 1
    /\ \A i \in 1..Len(reports) :
          /\ reports[i].file = i
          /\ reports[i].line = ExpectedLine(argv[i])
    /\ cpc = "exited" <=> cli_exit_code # -1
    /\ cpc = "exited" /\ Len(argv) >= 1 =>
          /\ Len(reports) = Len(argv)
          /\ cli_exit_code \in {0, 1}
          /\ cli_exit_code = 0 <=>
                \A i \in 1..Len(argv) : WellFormedFile(argv[i])

C11_Witness ==
    /\ cpc = "exited"
    /\ cli_exit_code = 1
    /\ Len(argv) = 2
    /\ argv[1].kind = "missing"
    /\ reports[2].line = "HTML is well-formed"

(***************************************************************************)
(* The generator run twice over the same templates tree.  Between the runs *)
(* docs/index.html may be left, removed or replaced, and the filesystem    *)
(* may list templates/ in another order; the inputs stay as they were.     *)
(***************************************************************************)
Reverse(seq) == [i \in 1..Len(seq) |-> seq[Len(seq) + 1 - i]]
\* Orders in which the filesystem may list the staff directories.
Listings ==
    {SelectSeq(staff_order, InDirs), Reverse(SelectSeq(staff_order, InDirs))}

InitTwoRuns ==
    /\ GeneratorStart
    /\ run = 1
    /\ first_out = [file |-> NoFile, clock |-> ""]
    /\ listing \in Listings
    /\ ValidatorIdle
    /\ CliIdle
    /\ WritersIdle

\* The first process has ended after writing its output; main() is entered
\* again in a new process.
Rerun ==
    /\ run = 1
    /\ pc = "exited"
    /\ docs_exists /\ write_io = "ok"
    /\ run' = 2
    /\ first_out' =
          [file |-> out_file, clock |-> context.generation_timestamp]
    /\ out_file' \in {out_file, NoFile, OldFile}
    /\ initial_out' = out_file'
    /\ listing' \in Listings
    /\ pc' = "load_welcome"
    /\ welcome_text' = <<>>
    /\ staff_members' = <<>>
    /\ context' = NoContext
    /\ output' = <<>>
    /\ attempt' = 1
    /\ invocations' = 0
    /\ outcomes' = <<>>
    /\ render_ok' = FALSE
    /\ write_io' = "none"
    /\ failed_stage' = "none"
    /\ exit_code' = -1
    /\ UNCHANGED <<welcome_exists, dirs, files, docs_exists, max_attempts>>
    /\ UNCHANGED <<val_vars, cli_vars, conc_vars>>

NextTwoRuns ==
    \/ Next
    \/ Rerun

SpecTwoRuns == InitTwoRuns /\ [][NextTwoRuns]_vars

\* The second run has written its output, having read the first run's clock.
SecondWritten ==
    /\ run = 2
    /\ write_io = "ok"
    /\ context.generation_timestamp = first_out.clock

\* C12: two runs over identical inputs that read the same clock value write
\* identical content to docs/index.html, whatever the file held before each
\* run and in whatever order the filesystem lists the directories.
C12_Deterministic ==
    SecondWritten => out_file = first_out.file

C12_Witness ==
    /\ SecondWritten
    /\ out_file = first_out.file
    /\ initial_out = OldFile
    /\ Len(staff_members) = 5
    /\ listing = Reverse(staff_order)

(***************************************************************************)
(* Order and effects of the stages of one generator run.                   *)
(***************************************************************************)
StageRank(p) ==
    CASE p = "load_welcome" -> 1
      [] p = "load_staff" -> 2
      [] p = "prepare" -> 3
      [] p = "render" -> 4
      [] p = "write" -> 5
      [] p = "verify" -> 6
      [] p = "exited" -> 7

\* render_template has been called.
RenderRan ==
    \/ pc \in {"write", "verify"}
    \/ pc = "exited" /\ context # NoContext

\* C13: the stages run strictly in the order load welcome text, load roster,
\* assemble context, render, write, verify, each at most once (verify being
\* the retry loop); the file is written only after rendering succeeded, the
\* external command first runs only after the file was written, and a stage
\* that fails keeps every later stage from starting.
C13_StageOrder ==
    /\ [][pc' # pc =>
             \/ StageRank(pc') = StageRank(pc) + 1 /\ failed_stage' = "none"
             \/ pc' = "exited"]_vars
    /\ [][pc' = pc => pc = "verify" /\ invocations' = invocations + 1]_vars
    /\ [][out_file' # out_file => pc = "write" /\ render_ok]_vars
    /\ [][out_file' # out_file /\ write_io' = "ok" =>
             out_file' = FileWith(render_template(context))]_vars
    /\ [][invocations' # invocations =>
             /\ pc = "verify"
             /\ write_io = "ok"
             /\ out_file = FileWith(output)]_vars
    /\ [](failed_stage # "none" => pc = "exited" /\ exit_code = 1)
    /\ [](pc = "exited" /\ ~welcome_exists =>
             staff_members = <<>> /\ context = NoContext)
    /\ [](pc = "exited" /\ RenderRan /\ ~render_ok =>
             /\ failed_stage = "render"
             /\ output = <<>>
             /\ write_io = "none"
             /\ invocations = 0)
    /\ [](pc = "exited" /\ write_io \notin {"none", "ok"} => invocations = 0)

C13_Witness ==
    /\ pc = "exited"
    /\ failed_stage = "render"
    /\ Len(staff_members) = 3
    /\ out_file = OldFile

\* C14: when loading or rendering fails (welcome.txt absent, a staff
\* directory without one of its files, the template not rendered) the run
\* leaves docs/index.html as it found it and never runs the external command;
\* when the verifier exhausts its attempts the new output is in place and is
\* not rolled back.
C14_FailureFrame ==
    /\ ~welcome_exists \/ ~AllPopulated \/ (RenderRan /\ ~render_ok) =>
          /\ out_file = initial_out
          /\ invocations = 0
          /\ write_io = "none"
    /\ pc = "exited" /\ failed_stage \in {"load_welcome", "load_staff", "render"} =>
          /\ out_file = initial_out
          /\ invocations = 0
    /\ pc = "exited" /\ failed_stage = "verify" =>
          /\ out_file = FileWith(output)
          /\ output = render_template(context)
          /\ out_file # initial_out

C14_Witness ==
    /\ pc = "exited"
    /\ failed_stage = "verify"
    /\ initial_out = OldFile
    /\ out_file = FileWith(output)
    /\ invocations = 3

(***************************************************************************)
(* Two generator processes in write_output at once.  Each has rendered its *)
(* own output; open(output_path, "w") creates or truncates the file and    *)
(* gives the process its own file position 0; f.write followed by the      *)
(* close at the end of the with block puts the string at that position.    *)
(* Nothing locks the file and nothing renames it into place.               *)
(***************************************************************************)
Procs == {1, 2}
\* The output of process p, n blocks long.
OutputOf(p, n) == [i \in 1..n |-> <<"block", p, i>>]

InitWriters ==
    /\ wpc = [p \in Procs |-> "open"]
    /\ \E n1, n2 \in 1..MaxOutLen :
          wout = [p \in Procs |-> OutputOf(p, IF p = 1 THEN n1 ELSE n2)]
    /\ last_writer = 0
    /\ welcome_exists = TRUE
    /\ dirs = {}
    /\ files = [id \in StaffIds |-> {}]
    /\ docs_exists = TRUE
    /\ out_file \in {NoFile, OldFile}
    /\ initial_out = out_file
    /\ pc = "write"
    /\ welcome_text = <<>>
    /\ staff_members = <<>>
    /\ context = NoContext
    /\ output = <<>>
    /\ max_attempts = DefaultMaxAttempts
    /\ attempt = 1
    /\ invocations = 0
    /\ outcomes = <<>>
    /\ render_ok = TRUE
    /\ write_io = "none"
    /\ failed_stage = "none"
    /\ exit_code = -1
    /\ ValidatorIdle
    /\ CliIdle
    /\ RerunIdle

\* What the file holds after a write of out at position 0.
write_at_end(data, out) == data \o out

write_at_start(data, out) == out \o SubSeq(data, Len(out) + 1, Len(data))

\* What two processes in write_output leave alone.
WritersFrame ==
    /\ UNCHANGED <<welcome_exists, dirs, files, docs_exists, initial_out, pc,
                   welcome_text, staff_members, context, output, max_attempts,
                   attempt, invocations, outcomes, render_ok, write_io,
                   failed_stage, exit_code>>
    /\ UNCHANGED <<val_vars, cli_vars, rerun_vars>>

\* with open(output_path, "w", encoding="utf-8") as f:
WriterOpen ==
    \E p \in Procs :
        /\ wpc[p] = "open"
        /\ out_file' = Truncated
        /\ wpc' = [wpc EXCEPT ![p] = "write"]
        /\ UNCHANGED <<wout, last_writer>>
        /\ WritersFrame

\* f.write(output), flushed when the with block closes the file
WriterWrite ==
    \E p \in Procs :
        /\ wpc[p] = "write"
        /\ out_file' = FileWith(write_at_start(out_file.data, wout[p]))
        /\ wpc' = [wpc EXCEPT ![p] = "done"]
        /\ last_writer' = p
        /\ UNCHANGED wout
        /\ WritersFrame

NextWriters ==
    \/ WriterOpen
    \/ WriterWrite

SpecWriters == InitWriters /\ [][NextWriters]_vars

BothWritten == \A p \in Procs : wpc[p] = "done"
Other(p) == 3 - p

SelfClosedAt(i) ==
    /\ i >= 1 /\ i < Len(content)
    /\ content[i].kind = "start"
    /\ content[i].tag \in VoidElements
    /\ content[i + 1] = EndEv(content[i].tag)

WithoutPair(i) == SubSeq(content, 1, i - 1) \o SubSeq(content, i + 2, Len(content))

\* C16: a void element causes no diagnostic in either written form: across a
\* self-closing void element (a start event, then an end event of the same
\* name) the stack and the diagnostics stay as they were, so a balanced
\* document stays valid with such an element inserted anywhere in it.
C16_VoidSelfClosing ==
    /\ [][AtEnd /\ SelfClosedAt(pos - 1) /\ pos' = pos + 1 =>
             stack' = stack /\ errors' = errors]_vars
    /\ [](vpc = "done" =>
             \A i \in 1..Len(content) :
                 SelfClosedAt(i) /\ Balanced(WithoutPair(i)) => valid)

(***************************************************************************)
(* run_precommit_with_retries with any max_attempts, called at the end of  *)
(* a run whose inputs are all present.                                     *)
(***************************************************************************)
AttemptRange == (0 - 1)..MaxAttempts

InitRetry ==
    /\ max_attempts \in AttemptRange
    /\ welcome_exists = TRUE
    /\ dirs \in SUBSET StaffIds
    /\ files = [id \in StaffIds |-> IF id \in dirs THEN FieldSet ELSE {}]
    /\ docs_exists = TRUE
    /\ out_file \in {NoFile, OldFile}
    /\ initial_out = out_file
    /\ pc = "load_welcome"
    /\ welcome_text = <<>>
    /\ staff_members = <<>>
    /\ context = NoContext
    /\ output = <<>>
    /\ attempt = 1
    /\ invocations = 0
    /\ outcomes = <<>>
    /\ render_ok = FALSE
    /\ write_io = "none"
    /\ failed_stage = "none"
    /\ exit_code = -1
    /\ ValidatorIdle
    /\ CliIdle
    /\ RerunIdle
    /\ WritersIdle

\* range(1, max_attempts + 1) has no further value: the for loop ends without
\* break or raise, the function returns None and main() returns.
RetryLoopExhausted ==
    /\ pc = "verify"
    /\ attempt > max_attempts
    /\ pc' = "exited"
    /\ exit_code' = 0
    /\ UNCHANGED <<welcome_exists, dirs, files, docs_exists, out_file,
                   initial_out, welcome_text, staff_members, context, output,
                   max_attempts, attempt, invocations, outcomes, render_ok,
                   write_io, failed_stage>>
    /\ UNCHANGED val_vars
    /\ UNCHANGED ext_vars

NextRetry ==
    \/ Next
    \/ RetryLoopExhausted

SpecRetry == InitRetry /\ [][NextRetry]_vars

\* C17: for max_attempts >= 1 the external command runs at least once and at
\* most max_attempts times, and failure is signalled exactly when all
\* max_attempts runs failed; for max_attempts <= 0 it never runs and the
\* function returns normally, so the run ends with success although nothing
\* was verified.
C17_AnyMaxAttempts ==
    /\ invocations = Len(outcomes)
    /\ invocations <= (IF max_attempts >= 1 THEN max_attempts ELSE 0)
    /\ VerifyOver /\ max_attempts >= 1 =>
          /\ invocations >= 1
          /\ failed_stage = "verify" <=>
                invocations = max_attempts /\ AllFailed(outcomes)
          /\ exit_code = 1 <=> failed_stage = "verify"
          /\ exit_code = 0 <=> outcomes[invocations]
    /\ VerifyOver /\ max_attempts <= 0 =>
          /\ invocations = 0
          /\ failed_stage = "none"
          /\ exit_code = 0

C17_Witness ==
    /\ pc = "exited"
    /\ max_attempts = 0
    /\ write_io = "ok"
    /\ invocations = 0
    /\ exit_code = 0

=============================================================================
